---- MODULE Spec2Model ----
(***************************************************************************)
(* Model of the detection service of src/src/object_detection_api.py:      *)
(* the ObjectDetectionAPI instance (run flag, detector, snapshot, thread   *)
(* handle, lock), the detection-loop threads it spawns, and the request    *)
(* handlers of the Flask server, which app.run(threaded=True) runs on      *)
(* concurrent threads.  Confidences are in hundredths, depths in tenths of *)
(* a metre; a filter value of a query is a number, NaN or None.            *)
(* Spec is the lifecycle with the reads, SpecSvc the service with all its  *)
(* routes, FairSpec the lifecycle under a fair scheduler, SpecCopy the     *)
(* worker and readers whose callers change the lists they were given, and  *)
(* SpecFn one request answered from a published snapshot.                  *)
(***************************************************************************)
EXTENDS Integers, Sequences, FiniteSets, TLC

VARIABLES
  detector,            \* self.detector is set (TRUE) or None (FALSE)
  is_running,          \* self.is_running
  current_detections,  \* self.current_detections: the elements of the list
  snapshot_of,         \* and which list object it is: 0 the list of line 23,
                       \* k the list line 83 created in cycle k
  detection_thread,    \* self.detection_thread: a thread id, or NoThread
  lock,                \* self.lock: its holder, or NoHolder
  artifacts,           \* environment: the model files of load_model exist
  th,                  \* the Thread objects created by start_detection
  cl,                  \* the request-handler threads of the server
  nextCycle,           \* number of frame pairs delivered so far
  calls,               \* number of requests accepted so far
  req,                 \* the query request a handler run on its own answers
  resp,                \* its response
  starts,              \* history: number of POST /start requests accepted
  started_since,       \* history: a start call has returned started with
                       \* the run flag set and no stop call in flight, and
                       \* no stop was called and no cycle raised since
  failed_since,        \* history: a loop ran line 106, and line 47 has not
                       \* run since
  reported,            \* history: per frame pair, the number of objects
                       \* detect_objects reported for it (-1: none yet)
  errored,             \* history: a start_detection call has returned error
  stopped_since        \* history: a stop_detection call that no
                       \* start_detection call overlapped has returned
                       \* stopped, and no start_detection call has
                       \* arrived since

io == <<req, resp>>
hist == <<starts, started_since, failed_since, reported, errored,
          stopped_since>>

vars == <<detector, is_running, current_detections, snapshot_of,
          detection_thread, lock,
          artifacts, th, cl, nextCycle, calls, req, resp,
          starts, started_since, failed_since, reported, errored,
          stopped_since>>

----------------------------------------------------------------------------
(* Bounds *)

MaxLoops == 2     \* Thread objects start_detection may create
MaxClients == 2   \* concurrent request handlers
MaxCycles == 2    \* frame pairs the camera delivers
MaxLen == 2       \* detections the detector reports for one frame
MaxCalls == 3     \* requests the server accepts

Loops == 1..MaxLoops
Clients == 1..MaxClients

NoThread == 0
NoHolder == <<"none", 0>>
LoopHolder(t) == <<"loop", t>>
ClientHolder(c) == <<"client", c>>

----------------------------------------------------------------------------
(* The external collaborators: what the detector sees in a frame *)

SceneClass(i) == IF i % 2 = 1 THEN "person" ELSE "chair"
SceneConfidence(i) == IF i % 3 = 1 THEN 90 ELSE IF i % 3 = 2 THEN 70 ELSE 60
SceneDepth(i) == IF i % 3 = 1 THEN 20 ELSE IF i % 3 = 2 THEN 15 ELSE 19

\* one entry of the list built at lines 90-96
Detection(k, i) ==
  [class |-> SceneClass(i), confidence |-> SceneConfidence(i),
   depth |-> SceneDepth(i), timestamp |-> k]

\* the complete list lines 83-96 build for cycle k when the detector
\* reported n objects
CycleList(k, n) == [i \in 1..n |-> Detection(k, i)]

----------------------------------------------------------------------------
(* get_detection_summary, lines 113-145, as a function of the list read *)

\* no summary computed
NoSummary == [total_objects |-> -1, objects |-> <<>>]

RECURSIVE GCD(_, _)
GCD(a, b) == IF b = 0 THEN a ELSE GCD(b, a % b)

RECURSIVE SumDepth(_)
SumDepth(s) == IF s = <<>> THEN 0 ELSE Head(s).depth + SumDepth(Tail(s))

\* np.mean of a non-empty list of depths, as a fraction in lowest terms
Mean(s) ==
  LET g == GCD(SumDepth(s), Len(s))
  IN  [num |-> SumDepth(s) \div g, den |-> Len(s) \div g]

\* line 139: the detections of one class, in list order
OfClass(detections, c) == SelectSeq(detections, LAMBDA d : d.class = c)

\* ClassKeys without the test of line 128: one key per detection
ClassKeys_PerDetection(detections) ==
  [i \in 1..Len(detections) |-> detections[i].class]

\* line 125-130: the keys of class_counts, in order of first occurrence
RECURSIVE ClassKeys(_)
ClassKeys(detections) ==
  IF detections = <<>> THEN <<>>
  ELSE LET init == SubSeq(detections, 1, Len(detections) - 1)
           last == detections[Len(detections)].class
           keys == ClassKeys(init)
       IN  IF \E i \in 1..Len(keys) : keys[i] = last
           THEN keys ELSE Append(keys, last)

\* line 125-130: class_counts[c], counted one detection at a time
RECURSIVE ClassCount(_, _)
ClassCount(detections, c) ==
  IF detections = <<>> THEN 0
  ELSE ClassCount(Tail(detections), c)
         + (IF Head(detections).class = c THEN 1 ELSE 0)

\* SummaryGroup without the filter of line 139: the mean of all depths
SummaryGroup_MeanOfAll(detections, c) ==
  [class |-> c, count |-> ClassCount(detections, c),
   average_depth |-> Mean(detections)]

\* line 135-141: the entry of one class
SummaryGroup(detections, c) ==
  [class |-> c, count |-> ClassCount(detections, c),
   average_depth |-> Mean(OfClass(detections, c))]

\* Summary without the branch of line 117-122, np.mean of no depths taken
\* as a failure
Summary_NoEmptyCase(detections) ==
  IF detections = <<>>
  THEN NoSummary
  ELSE [total_objects |-> Len(detections),
        objects |-> [i \in 1..Len(ClassKeys(detections)) |->
                       SummaryGroup(detections, ClassKeys(detections)[i])]]

\* line 117-145
Summary(detections) ==
  IF detections = <<>>
  THEN [total_objects |-> 0, objects |-> <<>>]
  ELSE [total_objects |-> Len(detections),
        objects |-> [i \in 1..Len(ClassKeys(detections)) |->
                       SummaryGroup(detections, ClassKeys(detections)[i])]]

----------------------------------------------------------------------------
(* query_objects, lines 187-214, as a function of its parameters and of    *)
(* the list read                                                           *)

\* a float: a number, NaN, or Python's None
Num(x) == [kind |-> "num", v |-> x]
NaN == [kind |-> "nan", v |-> 0]
None == [kind |-> "none", v |-> 0]

\* Python's < and > on floats: False when an operand is NaN
FloatLt(a, b) == a.kind = "num" /\ b.kind = "num" /\ a.v < b.v
FloatGt(a, b) == a.kind = "num" /\ b.kind = "num" /\ a.v > b.v

\* a query-string parameter: not given, or given with a text; the text of a
\* number parameter is a decimal, "nan", or something float() rejects
NotGiven == [given |-> FALSE, kind |-> "none", text |-> "", v |-> 0]
GivenText(t) == [given |-> TRUE, kind |-> "text", text |-> t, v |-> 0]
GivenNumber(x) == [given |-> TRUE, kind |-> "num", text |-> "", v |-> x]
GivenNaN == [given |-> TRUE, kind |-> "nan", text |-> "nan", v |-> 0]
GivenJunk == [given |-> TRUE, kind |-> "junk", text |-> "abc", v |-> 0]

ClassArgs == {NotGiven, GivenText(""), GivenText("person"),
              GivenText("chair"), GivenText("dog")}
ConfidenceArgs == {NotGiven, GivenJunk, GivenNaN, GivenNumber(50),
                   GivenNumber(70)}
DepthArgs == {NotGiven, GivenJunk, GivenNaN, GivenNumber(15)}

\* request.args.get(key, default, type=float), line 191-192: the default
\* when the parameter is missing or float() raises ValueError on it
ArgsGetFloat(arg, default) ==
  IF ~arg.given \/ arg.kind = "junk" THEN default
  ELSE IF arg.kind = "nan" THEN NaN
  ELSE Num(arg.v)

\* line 198: obj_class is truthy: given and not the empty string
Truthy(arg) == arg.given /\ arg.text # ""

\* line 198-203: the detection is skipped
Skipped(d, obj_class, min_confidence, max_depth) ==
  \/ Truthy(obj_class) /\ d.class # obj_class.text
  \/ FloatLt(Num(d.confidence), min_confidence)
  \/ max_depth.kind # "none" /\ FloatGt(Num(d.depth), max_depth)

\* line 195-204: the loop over the detections
RECURSIVE Filtered(_, _, _, _)
Filtered(detections, obj_class, min_confidence, max_depth) ==
  IF detections = <<>> THEN <<>>
  ELSE LET rest == Filtered(Tail(detections), obj_class, min_confidence,
                            max_depth)
       IN  IF Skipped(Head(detections), obj_class, min_confidence, max_depth)
           THEN rest ELSE <<Head(detections)>> \o rest

----------------------------------------------------------------------------
(* Initial state: ObjectDetectionAPI.__init__ *)

\* the list object a handler holds: none, the new list of line 111, or
\* (>= 0) the list object of the snapshot
NoList == -1
OwnList(c) == -1 - c

\* a handler thread: its position, the request it serves, its answer and its
\* locals; quiet and seen are history: the worker was stopped when the request
\* arrived, and the snapshot as it stood when the handler took the lock;
\* list is the list object get_current_detections returned and copy its
\* elements; gone: the subscriber of the stream has disconnected; calm is
\* history: no start_detection call was in flight when the request arrived
\* and none has arrived since; cycle: the cycle whose snapshot the stream
\* emitted last; detections: the list an ollama handler read first
IdleClient == [pc |-> "idle", op |-> "none", status |-> "none", jt |-> 0,
               quiet |-> FALSE, seen |-> <<>>, copy |-> <<>>,
               summary |-> NoSummary, list |-> NoList, results |-> <<>>,
               flags |-> <<>>, gone |-> FALSE, calm |-> FALSE,
               cycle |-> 0, detections |-> <<>>]

NoRequest == [op |-> "none"]
NoResponse == [status |-> "none"]

\* a Thread object: its position and its locals; skipped is history: the
\* thread comes from the continue of line 74
UnbornThread == [pc |-> "unborn", cyc |-> 0, n |-> 0, detections |-> <<>>,
                 skipped |-> FALSE]

Init ==
  /\ detector = FALSE
  /\ is_running = FALSE
  /\ current_detections = <<>>
  /\ snapshot_of = 0
  /\ detection_thread = NoThread
  /\ lock = NoHolder
  /\ artifacts \in BOOLEAN
  /\ th = [t \in Loops |-> UnbornThread]
  /\ cl = [c \in Clients |-> IdleClient]
  /\ nextCycle = 0
  /\ calls = 0
  /\ req = NoRequest
  /\ resp = NoResponse
  /\ starts = 0
  /\ started_since = FALSE
  /\ failed_since = FALSE
  /\ reported = [k \in 1..MaxCycles |-> -1]
  /\ errored = FALSE
  /\ stopped_since = FALSE

----------------------------------------------------------------------------
(* The detection loop: ObjectDetectionAPI._detection_loop, one thread t *)

\* LoopCheck without the test of line 64: while True
LoopCheck_Unconditional(t) ==
  /\ th[t].pc = "check"
  /\ th' = [th EXCEPT ![t].pc = IF detector THEN "wait" ELSE "dead",
                       ![t].skipped = FALSE]
  /\ UNCHANGED <<detector, is_running, current_detections, snapshot_of,
                 detection_thread, lock, artifacts, cl, nextCycle, calls, io,
                 hist>>

\* line 64-66: while self.is_running / if not self.detector: break
LoopCheck(t) ==
  /\ th[t].pc = "check"
  /\ th' = [th EXCEPT ![t].pc = IF is_running /\ detector THEN "wait"
                                ELSE "dead",
                       ![t].skipped = FALSE]
  /\ UNCHANGED <<detector, is_running, current_detections, snapshot_of,
                 detection_thread, lock, artifacts, cl, nextCycle, calls, io,
                 hist>>

\* line 69-77: wait_for_frames returned a colour and a depth frame
LoopFramePair(t) ==
  /\ th[t].pc = "wait"
  /\ nextCycle < MaxCycles
  /\ nextCycle' = nextCycle + 1
  /\ th' = [th EXCEPT ![t].pc = "detect", ![t].cyc = nextCycle + 1]
  /\ UNCHANGED <<detector, is_running, current_detections, snapshot_of,
                 detection_thread, lock, artifacts, cl, calls, io, hist>>

\* LoopFrameMiss with a missing frame taken as an error: control passes to
\* the except clause of line 104
LoopFrameMiss_Raises(t) ==
  /\ th[t].pc = "wait"
  /\ th' = [th EXCEPT ![t].pc = "except", ![t].skipped = TRUE]
  /\ UNCHANGED <<detector, is_running, current_detections, snapshot_of,
                 detection_thread, lock, artifacts, cl, nextCycle, calls, io,
                 hist>>

\* line 73-74: a frame is missing: continue
LoopFrameMiss(t) ==
  /\ th[t].pc = "wait"
  /\ th' = [th EXCEPT ![t].pc = "check", ![t].skipped = TRUE]
  /\ UNCHANGED <<detector, is_running, current_detections, snapshot_of,
                 detection_thread, lock, artifacts, cl, nextCycle, calls, io,
                 hist>>

\* line 80, 83: objects = detect_objects(color_image); detections = []
LoopDetect(t) ==
  /\ th[t].pc = "detect"
  /\ \E n \in 0..MaxLen :
       th' = [th EXCEPT ![t].pc = "enrich", ![t].n = n, ![t].detections = <<>>]
  /\ reported' = [reported EXCEPT ![th[t].cyc] = th'[t].n]
  /\ UNCHANGED <<detector, is_running, current_detections, snapshot_of,
                 detection_thread, lock, artifacts, cl, nextCycle, calls, io,
                 starts, started_since, failed_since, errored,
                 stopped_since>>

\* line 84-96: one pass of the for loop: depth lookup and append
LoopEnrich(t) ==
  /\ th[t].pc = "enrich"
  /\ Len(th[t].detections) < th[t].n
  /\ th' = [th EXCEPT ![t].detections =
              Append(@, Detection(th[t].cyc, Len(th[t].detections) + 1))]
  /\ UNCHANGED <<detector, is_running, current_detections, snapshot_of,
                 detection_thread, lock, artifacts, cl, nextCycle, calls, io,
                 hist>>

\* LoopAcquire without the lock: the list is assigned whoever holds the lock
LoopAcquire_NoLock(t) ==
  /\ th[t].pc = "enrich"
  /\ Len(th[t].detections) = th[t].n
  /\ lock' = LoopHolder(t)
  /\ th' = [th EXCEPT ![t].pc = "swap"]
  /\ UNCHANGED <<detector, is_running, current_detections, snapshot_of,
                 detection_thread, artifacts, cl, nextCycle, calls, io,
                 hist>>

\* line 98: with self.lock (acquire)
LoopAcquire(t) ==
  /\ th[t].pc = "enrich"
  /\ Len(th[t].detections) = th[t].n
  /\ lock = NoHolder
  /\ lock' = LoopHolder(t)
  /\ th' = [th EXCEPT ![t].pc = "swap"]
  /\ UNCHANGED <<detector, is_running, current_detections, snapshot_of,
                 detection_thread, artifacts, cl, nextCycle, calls, io,
                 hist>>

\* LoopSwap extending the stored list instead of replacing it
LoopSwap_Merges(t) ==
  /\ th[t].pc = "swap"
  /\ current_detections' = current_detections \o th[t].detections
  /\ snapshot_of' = th[t].cyc
  /\ lock' = NoHolder
  /\ th' = [th EXCEPT ![t] = [UnbornThread EXCEPT !.pc = "sleep"]]
  /\ UNCHANGED <<detector, is_running, detection_thread, artifacts, cl,
                 nextCycle, calls, io, hist>>

\* line 99: self.current_detections = detections, and the lock's release
LoopSwap(t) ==
  /\ th[t].pc = "swap"
  /\ current_detections' = th[t].detections
  /\ snapshot_of' = th[t].cyc
  /\ lock' = NoHolder
  /\ th' = [th EXCEPT ![t] = [UnbornThread EXCEPT !.pc = "sleep"]]
  /\ UNCHANGED <<detector, is_running, detection_thread, artifacts, cl,
                 nextCycle, calls, io, hist>>

\* line 102: time.sleep(0.1)
LoopSleep(t) ==
  /\ th[t].pc = "sleep"
  /\ th' = [th EXCEPT ![t].pc = "check"]
  /\ UNCHANGED <<detector, is_running, current_detections, snapshot_of,
                 detection_thread, lock, artifacts, cl, nextCycle, calls, io,
                 hist>>

\* line 69, 80, 88: wait_for_frames, detect_objects or get_depth_at_point
\* raises; control passes to the except clause of line 104
LoopRaise(t) ==
  /\ \/ th[t].pc \in {"wait", "detect"}
     \/ th[t].pc = "enrich" /\ Len(th[t].detections) < th[t].n
  /\ th' = [th EXCEPT ![t].pc = "except"]
  /\ started_since' = FALSE
  /\ UNCHANGED <<detector, is_running, current_detections, snapshot_of,
                 detection_thread, lock, artifacts, cl, nextCycle, calls, io,
                 starts, failed_since, reported, errored, stopped_since>>

\* LoopExcept without line 106: the run flag is left set
LoopExcept_KeepsRunning(t) ==
  /\ th[t].pc = "except"
  /\ failed_since' = TRUE
  /\ th' = [th EXCEPT ![t].pc = "dead"]
  /\ UNCHANGED <<detector, is_running, current_detections, snapshot_of,
                 detection_thread, lock, artifacts, cl, nextCycle, calls, io,
                 starts, started_since, reported, errored, stopped_since>>

\* line 104-106: except Exception: self.is_running = False
LoopExcept(t) ==
  /\ th[t].pc = "except"
  /\ is_running' = FALSE
  /\ th' = [th EXCEPT ![t].pc = "dead"]
  /\ failed_since' = TRUE
  /\ UNCHANGED <<detector, current_detections, snapshot_of, detection_thread,
                 lock, artifacts, cl, nextCycle, calls, io, starts,
                 started_since, reported, errored, stopped_since>>

----------------------------------------------------------------------------
(* The request handlers, one thread c per request in flight *)

StartPcs == {"s40", "s43", "s32", "s47", "s48", "s49", "s50"}

\* WorkerState Stopped or Failed: the run flag is clear and no start_detection
\* call is in flight
Quiet == ~is_running /\ \A c \in Clients : cl[c].pc \notin StartPcs

\* the server hands a request to a free handler thread; which one is
\* immaterial, so the lowest free one takes it
Accept(c, op, pc) ==
  /\ cl[c].pc = "idle"
  /\ \A b \in Clients : b < c => cl[b].pc # "idle"
  /\ calls < MaxCalls
  /\ calls' = calls + 1
  /\ cl' = [b \in Clients |->
              IF b = c
              THEN [IdleClient EXCEPT
                      !.pc = pc, !.op = op, !.quiet = Quiet,
                      !.calm = \A a \in Clients : cl[a].pc \notin StartPcs]
              ELSE IF op = "start" THEN [cl[b] EXCEPT !.calm = FALSE]
              ELSE cl[b]]
  /\ started_since' = (started_since /\ op # "stop")
  /\ starts' = IF op = "start" THEN starts + 1 ELSE starts
  /\ stopped_since' = (stopped_since /\ op # "start")
  /\ UNCHANGED <<detector, is_running, current_detections, snapshot_of,
                 detection_thread, lock, artifacts, th, nextCycle, io,
                 failed_since, reported, errored>>

\* the handler answers; its locals are dropped, its answer is kept
Return(c, status) ==
  [cl EXCEPT ![c].pc = "idle", ![c].status = status, ![c].jt = 0,
             ![c].seen = <<>>, ![c].calm = FALSE,
             ![c].cycle = 0]

\* line 160-163: POST /start
CallStart(c) == Accept(c, "start", "s40")

\* line 166-169: POST /stop
CallStop(c) == Accept(c, "stop", "p56")

\* line 172-175: GET /detections
CallDetections(c) == Accept(c, "detections", "r110")

\* line 181-184: GET /summary
CallSummary(c) == Accept(c, "summary", "r110")

\* StartCheckRunning without the test of line 40-41
StartCheckRunning_NoTest(c) ==
  /\ cl[c].pc = "s40"
  /\ cl' = [cl EXCEPT ![c].pc = "s43"]
  /\ UNCHANGED <<detector, is_running, current_detections, snapshot_of,
                 detection_thread, lock, artifacts, th, nextCycle, calls, io,
                 hist>>

\* line 40-41: if self.is_running: return already_running
StartCheckRunning(c) ==
  /\ cl[c].pc = "s40"
  /\ cl' = IF is_running THEN Return(c, "already_running")
           ELSE [cl EXCEPT ![c].pc = "s43"]
  /\ UNCHANGED <<detector, is_running, current_detections, snapshot_of,
                 detection_thread, lock, artifacts, th, nextCycle, calls, io,
                 hist>>

\* StartCheckDetector without the test of line 43: a detector is
\* constructed by every call
StartCheckDetector_AlwaysBuilds(c) ==
  /\ cl[c].pc = "s43"
  /\ cl' = [cl EXCEPT ![c].pc = "s32"]
  /\ UNCHANGED <<detector, is_running, current_detections, snapshot_of,
                 detection_thread, lock, artifacts, th, nextCycle, calls, io,
                 hist>>

\* line 43: if not self.detector
StartCheckDetector(c) ==
  /\ cl[c].pc = "s43"
  /\ cl' = [cl EXCEPT ![c].pc = IF detector THEN "s47" ELSE "s32"]
  /\ UNCHANGED <<detector, is_running, current_detections, snapshot_of,
                 detection_thread, lock, artifacts, th, nextCycle, calls, io,
                 hist>>

\* StartInitialize with initialize_detector answering True after a failed
\* construction: start_detection goes on to line 47
StartInitialize_IgnoresFailure(c) ==
  /\ cl[c].pc = "s32"
  /\ detector' = (detector \/ artifacts)
  /\ cl' = [cl EXCEPT ![c].pc = "s47"]
  /\ errored' = errored
  /\ UNCHANGED <<is_running, current_detections, snapshot_of,
                 detection_thread, lock, artifacts, th, nextCycle, calls, io,
                 starts, started_since, failed_since, reported,
                 stopped_since>>

\* line 27-36, 44-45: initialize_detector; ObjectDetector() raises when the
\* model files are missing (object_detection_jetson.py line 39-43)
StartInitialize(c) ==
  /\ cl[c].pc = "s32"
  /\ IF artifacts
     THEN /\ detector' = TRUE
          /\ cl' = [cl EXCEPT ![c].pc = "s47"]
     ELSE /\ detector' = detector
          /\ cl' = Return(c, "error")
  /\ errored' = (errored \/ ~artifacts)
  /\ UNCHANGED <<is_running, current_detections, snapshot_of,
                 detection_thread, lock, artifacts, th, nextCycle, calls, io,
                 starts, started_since, failed_since, reported,
                 stopped_since>>

\* StartSetRunning that also resets the snapshot to an empty list
StartSetRunning_ResetsSnapshot(c) ==
  /\ cl[c].pc = "s47"
  /\ is_running' = TRUE
  /\ current_detections' = <<>>
  /\ cl' = [cl EXCEPT ![c].pc = "s48"]
  /\ failed_since' = FALSE
  /\ UNCHANGED <<detector, snapshot_of, detection_thread, lock, artifacts,
                 th, nextCycle, calls, io, starts, started_since, reported,
                 errored, stopped_since>>

\* line 47: self.is_running = True
StartSetRunning(c) ==
  /\ cl[c].pc = "s47"
  /\ is_running' = TRUE
  /\ cl' = [cl EXCEPT ![c].pc = "s48"]
  /\ failed_since' = FALSE
  /\ UNCHANGED <<detector, current_detections, snapshot_of, detection_thread,
                 lock, artifacts, th, nextCycle, calls, io, starts,
                 started_since, reported, errored, stopped_since>>

\* line 48: self.detection_thread = threading.Thread(target=...)
StartCreateThread(c) ==
  /\ cl[c].pc = "s48"
  /\ \E t \in Loops :
       /\ th[t].pc = "unborn"
       /\ \A u \in Loops : u < t => th[u].pc # "unborn"
       /\ th' = [th EXCEPT ![t].pc = "created"]
       /\ detection_thread' = t
  /\ cl' = [cl EXCEPT ![c].pc = "s49"]
  /\ UNCHANGED <<detector, is_running, current_detections, snapshot_of, lock,
                 artifacts, nextCycle, calls, io, hist>>

\* line 49: self.detection_thread.daemon = True; the setter raises
\* RuntimeError when the thread it finds there has been started
StartSetDaemon(c) ==
  /\ cl[c].pc = "s49"
  /\ cl' = IF th[detection_thread].pc = "created"
           THEN [cl EXCEPT ![c].pc = "s50"]
           ELSE Return(c, "raised")
  /\ UNCHANGED <<detector, is_running, current_detections, snapshot_of,
                 detection_thread, lock, artifacts, th, nextCycle, calls, io,
                 hist>>

\* line 50-52: self.detection_thread.start(); Thread.start raises
\* RuntimeError when the thread it finds there has been started
StartThread(c) ==
  /\ cl[c].pc = "s50"
  /\ IF th[detection_thread].pc = "created"
     THEN /\ th' = [th EXCEPT ![detection_thread].pc = "check"]
          /\ cl' = Return(c, "started")
     ELSE /\ th' = th
          /\ cl' = Return(c, "raised")
  /\ started_since' =
       \/ started_since
       \/ /\ cl'[c].status = "started"
          /\ is_running
          /\ \A b \in Clients : cl[b].op = "stop" => cl[b].pc = "idle"
  /\ UNCHANGED <<detector, is_running, current_detections, snapshot_of,
                 detection_thread, lock, artifacts, nextCycle, calls, io,
                 starts, failed_since, reported, errored, stopped_since>>

\* StopClearRunning that also empties the snapshot
StopClearRunning_ClearsSnapshot(c) ==
  /\ cl[c].pc = "p56"
  /\ is_running' = FALSE
  /\ current_detections' = <<>>
  /\ cl' = [cl EXCEPT ![c].pc = "p57"]
  /\ UNCHANGED <<snapshot_of, detector, detection_thread, lock, artifacts,
                 th, nextCycle, calls, io, hist>>

\* line 56: self.is_running = False
StopClearRunning(c) ==
  /\ cl[c].pc = "p56"
  /\ is_running' = FALSE
  /\ cl' = [cl EXCEPT ![c].pc = "p57"]
  /\ UNCHANGED <<detector, current_detections, snapshot_of, detection_thread,
                 lock, artifacts, th, nextCycle, calls, io, hist>>

\* line 57: if self.detection_thread
StopCheckThread(c) ==
  /\ cl[c].pc = "p57"
  /\ cl' = IF detection_thread = NoThread THEN Return(c, "stopped")
           ELSE [cl EXCEPT ![c].pc = "p58"]
  /\ stopped_since' =
       (stopped_since \/ (detection_thread = NoThread /\ cl[c].calm))
  /\ UNCHANGED <<detector, is_running, current_detections, snapshot_of,
                 detection_thread, lock, artifacts, th, nextCycle, calls, io,
                 starts, started_since, failed_since, reported, errored>>

\* line 58: self.detection_thread.join(timeout=2.0) is entered; Thread.join
\* raises RuntimeError on a thread that has not been started
StopJoin(c) ==
  /\ cl[c].pc = "p58"
  /\ cl' = IF th[detection_thread].pc = "created"
           THEN Return(c, "raised")
           ELSE [cl EXCEPT ![c].pc = "join", ![c].jt = detection_thread]
  /\ UNCHANGED <<detector, is_running, current_detections, snapshot_of,
                 detection_thread, lock, artifacts, th, nextCycle, calls, io,
                 hist>>

\* the 2 seconds of line 58 can pass while the loop is in wait_for_frames
\* (line 69) or in detect_objects (line 80), or is kept going by the run flag
JoinTimeout(t) == th[t].pc \in {"wait", "detect"} \/ is_running

\* line 58-59: join returns, the thread has ended or the timeout has passed
StopReturn(c) ==
  /\ cl[c].pc = "join"
  /\ th[cl[c].jt].pc = "dead" \/ JoinTimeout(cl[c].jt)
  /\ cl' = Return(c, "stopped")
  /\ stopped_since' = (stopped_since \/ cl[c].calm)
  /\ UNCHANGED <<detector, is_running, current_detections, snapshot_of,
                 detection_thread, lock, artifacts, th, nextCycle, calls, io,
                 starts, started_since, failed_since, reported, errored>>

\* line 110: with self.lock (acquire)
ReadAcquire(c) ==
  /\ cl[c].pc = "r110"
  /\ lock = NoHolder
  /\ lock' = ClientHolder(c)
  /\ cl' = [cl EXCEPT ![c].pc = "r111", ![c].seen = current_detections]
  /\ UNCHANGED <<detector, is_running, current_detections, snapshot_of,
                 detection_thread, artifacts, th, nextCycle, calls, io,
                 hist>>

\* line 111: self.current_detections.copy(), one element at a time
ReadCopy(c) ==
  /\ cl[c].pc = "r111"
  /\ Len(cl[c].copy) < Len(current_detections)
  /\ cl' = [cl EXCEPT ![c].copy =
              Append(@, current_detections[Len(cl[c].copy) + 1])]
  /\ UNCHANGED <<detector, is_running, current_detections, snapshot_of,
                 detection_thread, lock, artifacts, th, nextCycle, calls, io,
                 hist>>

\* ReadReturn without the copy of line 111: the handler is given the list
\* object of the snapshot itself
ReadReturn_SameList(c) ==
  /\ cl[c].pc = "r111"
  /\ cl[c].op \in {"detections", "summary"}
  /\ Len(cl[c].copy) >= Len(current_detections)
  /\ lock' = NoHolder
  /\ cl' = [Return(c, "ok") EXCEPT
              ![c].list = snapshot_of,
              ![c].summary = IF cl[c].op = "summary"
                             THEN Summary(cl[c].copy) ELSE NoSummary]
  /\ UNCHANGED <<detector, is_running, current_detections, snapshot_of,
                 detection_thread, artifacts, th, nextCycle, calls, io,
                 hist>>

\* line 111: the copy is complete, the lock is released and the handler
\* answers: get_detections with the list (line 175-179), get_summary with the
\* summary of the list (line 115-145, 184-185)
ReadReturn(c) ==
  /\ cl[c].pc = "r111"
  /\ cl[c].op \in {"detections", "summary"}
  /\ Len(cl[c].copy) >= Len(current_detections)
  /\ lock' = NoHolder
  /\ cl' = [Return(c, "ok") EXCEPT
              ![c].list = OwnList(c),
              ![c].summary = IF cl[c].op = "summary"
                             THEN Summary(cl[c].copy) ELSE NoSummary]
  /\ UNCHANGED <<detector, is_running, current_detections, snapshot_of,
                 detection_thread, artifacts, th, nextCycle, calls, io,
                 hist>>

\* what a caller can do to a list it holds: del l[0], l.clear()
Mutations(l) == {Tail(l), <<>>} \ {l}

\* the caller of get_current_detections changes the list object it was
\* given; every variable that refers to that object shows the change (a
\* loop has no use for the list it has swapped in, line 83 gives it a new
\* one)
CallerMutate(c) ==
  /\ cl[c].pc = "idle"
  /\ cl[c].list # NoList
  /\ cl[c].copy # <<>>
  /\ \E new \in Mutations(cl[c].copy) :
       /\ cl' = [b \in Clients |->
                   IF cl[b].list = cl[c].list
                   THEN [cl[b] EXCEPT !.copy = new] ELSE cl[b]]
       /\ current_detections' =
            IF snapshot_of = cl[c].list THEN new ELSE current_detections
  /\ UNCHANGED <<detector, is_running, snapshot_of, detection_thread, lock,
                 artifacts, th, nextCycle, calls, io, hist>>

\* line 150-152: GET /health
CallHealth(c) == Accept(c, "health", "h156")

\* line 156: api.detector is not None
HealthDetector(c) ==
  /\ cl[c].pc = "h156"
  /\ cl' = [cl EXCEPT ![c].pc = "h157", ![c].flags = <<detector>>]
  /\ UNCHANGED <<detector, is_running, current_detections, snapshot_of,
                 detection_thread, lock, artifacts, th, nextCycle, calls, io,
                 hist>>

\* line 157-158: api.is_running, and the answer
HealthRunning(c) ==
  /\ cl[c].pc = "h157"
  /\ cl' = [Return(c, "healthy") EXCEPT
              ![c].flags = Append(cl[c].flags, is_running)]
  /\ UNCHANGED <<detector, is_running, current_detections, snapshot_of,
                 detection_thread, lock, artifacts, th, nextCycle, calls, io,
                 hist>>

\* line 187-194: GET /query, up to the call of get_current_detections
CallQuery(c) == Accept(c, "query", "r110")

\* line 111, 195-214: the copy is complete, the lock is released, and the
\* list is filtered by the parameters of the request
QueryReturn(c) ==
  /\ cl[c].pc = "r111"
  /\ cl[c].op = "query"
  /\ Len(cl[c].copy) >= Len(current_detections)
  /\ lock' = NoHolder
  /\ \E class \in {NotGiven, GivenText("person")},
        mc \in {NotGiven, GivenNumber(70)}, md \in {NotGiven, GivenNumber(15)} :
       cl' = [Return(c, "ok") EXCEPT
                ![c].list = OwnList(c),
                ![c].results = Filtered(cl[c].copy, class,
                                        ArgsGetFloat(mc, Num(50)),
                                        ArgsGetFloat(md, None))]
  /\ UNCHANGED <<detector, is_running, current_detections, snapshot_of,
                 detection_thread, artifacts, th, nextCycle, calls, io,
                 hist>>

\* StreamRead that leaves the with block of line 110 without releasing
StreamRead_KeepsLock(c) ==
  /\ cl[c].pc = "r111"
  /\ cl[c].op = "stream"
  /\ Len(cl[c].copy) >= Len(current_detections)
  /\ cl' = [cl EXCEPT ![c].pc = "y227", ![c].list = OwnList(c),
                      ![c].cycle = snapshot_of]
  /\ UNCHANGED <<detector, is_running, current_detections, snapshot_of,
                 detection_thread, lock, artifacts, th, nextCycle, calls, io,
                 hist>>

\* line 216-221: GET /stream: the server begins to iterate generate()
CallStream(c) == Accept(c, "stream", "r110")

\* line 111, 221-226: the copy is complete, the lock is released, the event
\* is built
StreamRead(c) ==
  /\ cl[c].pc = "r111"
  /\ cl[c].op = "stream"
  /\ Len(cl[c].copy) >= Len(current_detections)
  /\ lock' = NoHolder
  /\ cl' = [cl EXCEPT ![c].pc = "y227", ![c].list = OwnList(c),
                      ![c].cycle = snapshot_of]
  /\ UNCHANGED <<detector, is_running, current_detections, snapshot_of,
                 detection_thread, artifacts, th, nextCycle, calls, io,
                 hist>>

\* line 227: yield: the server writes the event to the subscriber and asks
\* for the next one; when the subscriber is gone the write fails and the
\* server closes the generator
StreamYield(c) ==
  /\ cl[c].pc = "y227"
  /\ cl' = IF cl[c].gone THEN Return(c, "closed")
           ELSE [cl EXCEPT ![c].pc = "z228"]
  /\ UNCHANGED <<detector, is_running, current_detections, snapshot_of,
                 detection_thread, lock, artifacts, th, nextCycle, calls, io,
                 hist>>

\* line 228, 220: time.sleep(0.5), and while True
StreamSleep(c) ==
  /\ cl[c].pc = "z228"
  /\ cl' = [cl EXCEPT ![c].pc = "r110", ![c].copy = <<>>,
                      ![c].seen = <<>>, ![c].list = NoList]
  /\ UNCHANGED <<detector, is_running, current_detections, snapshot_of,
                 detection_thread, lock, artifacts, th, nextCycle, calls, io,
                 hist>>

\* the environment: the subscriber of a stream closes its connection
Disconnect(c) ==
  /\ cl[c].op = "stream"
  /\ cl[c].pc # "idle"
  /\ ~cl[c].gone
  /\ cl' = [cl EXCEPT ![c].gone = TRUE]
  /\ UNCHANGED <<detector, is_running, current_detections, snapshot_of,
                 detection_thread, lock, artifacts, th, nextCycle, calls, io,
                 hist>>

\* line 292-295: GET /ollama/scene_analysis, up to the call of
\* get_current_detections
CallScene(c) == Accept(c, "scene", "r110")

\* line 232-235: POST /ollama/prompt, up to the test of the body
CallPrompt(c) == Accept(c, "prompt", "o237")

\* line 237-241: a body without a prompt is answered with 400; otherwise
\* the handler goes on to get_current_detections
PromptCheck(c) ==
  /\ cl[c].pc = "o237"
  /\ \E has_prompt \in BOOLEAN :
       cl' = IF has_prompt THEN [cl EXCEPT ![c].pc = "r110"]
             ELSE Return(c, "400")
  /\ UNCHANGED <<detector, is_running, current_detections, snapshot_of,
                 detection_thread, lock, artifacts, th, nextCycle, calls, io,
                 hist>>

\* line 241, 295: detections = api.get_current_detections(): the copy is
\* complete and the lock is released; line 242, 296, 115: the handler goes
\* on to get_detection_summary, which calls get_current_detections again
OllamaDetections(c) ==
  /\ cl[c].pc = "r111"
  /\ cl[c].op \in {"prompt", "scene"}
  /\ cl[c].list = NoList
  /\ Len(cl[c].copy) >= Len(current_detections)
  /\ lock' = NoHolder
  /\ cl' = [cl EXCEPT ![c].pc = "r110", ![c].detections = cl[c].copy,
                      ![c].list = OwnList(c), ![c].copy = <<>>,
                      ![c].seen = <<>>]
  /\ UNCHANGED <<detector, is_running, current_detections, snapshot_of,
                 detection_thread, artifacts, th, nextCycle, calls, io,
                 hist>>

\* line 242, 296, 115-145: summary = api.get_detection_summary(): the
\* second copy is complete, the lock is released, the summary is computed
\* from the second copy; line 281-290, 325-331: the answer carries the
\* summary and the list read first
OllamaSummary(c) ==
  /\ cl[c].pc = "r111"
  /\ cl[c].op \in {"prompt", "scene"}
  /\ cl[c].list # NoList
  /\ Len(cl[c].copy) >= Len(current_detections)
  /\ lock' = NoHolder
  /\ cl' = [Return(c, "ok") EXCEPT ![c].summary = Summary(cl[c].copy)]
  /\ UNCHANGED <<detector, is_running, current_detections, snapshot_of,
                 detection_thread, artifacts, th, nextCycle, calls, io,
                 hist>>

\* the environment: setup_jetson.sh has downloaded the model files
InstallArtifacts ==
  /\ ~artifacts
  /\ artifacts' = TRUE
  /\ UNCHANGED <<detector, is_running, current_detections, snapshot_of,
                 detection_thread, lock, th, cl, nextCycle, calls, io, hist>>

----------------------------------------------------------------------------

Next ==
  \/ \E t \in Loops :
       \/ LoopCheck(t) \/ LoopFramePair(t) \/ LoopFrameMiss(t)
       \/ LoopDetect(t) \/ LoopEnrich(t) \/ LoopAcquire(t) \/ LoopSwap(t)
       \/ LoopSleep(t) \/ LoopRaise(t) \/ LoopExcept(t)
  \/ \E c \in Clients :
       \/ CallStart(c) \/ CallStop(c) \/ CallDetections(c) \/ CallSummary(c)
       \/ StartCheckRunning(c) \/ StartCheckDetector(c) \/ StartInitialize(c)
       \/ StartSetRunning(c) \/ StartCreateThread(c) \/ StartSetDaemon(c)
       \/ StartThread(c)
       \/ StopClearRunning(c) \/ StopCheckThread(c) \/ StopJoin(c)
       \/ StopReturn(c)
       \/ ReadAcquire(c) \/ ReadCopy(c) \/ ReadReturn(c)
  \/ InstallArtifacts

Spec == Init /\ [][Next]_vars

\* a step of thread t; LoopRaise is left out: no call has to raise
LoopStep(t) ==
  \/ LoopCheck(t) \/ LoopFramePair(t) \/ LoopFrameMiss(t) \/ LoopDetect(t)
  \/ LoopEnrich(t) \/ LoopAcquire(t) \/ LoopSwap(t) \/ LoopSleep(t)
  \/ LoopExcept(t)

\* the scheduler runs every started thread, and wait_for_frames returns
Fairness == \A t \in Loops : WF_vars(LoopStep(t))

\* the lifecycle: the loops, start_detection and stop_detection
NextLifecycle ==
  \/ \E t \in Loops :
       \/ LoopCheck(t) \/ LoopFramePair(t) \/ LoopFrameMiss(t)
       \/ LoopDetect(t) \/ LoopEnrich(t) \/ LoopAcquire(t) \/ LoopSwap(t)
       \/ LoopSleep(t) \/ LoopRaise(t) \/ LoopExcept(t)
  \/ \E c \in Clients :
       \/ CallStart(c) \/ CallStop(c)
       \/ StartCheckRunning(c) \/ StartCheckDetector(c) \/ StartInitialize(c)
       \/ StartSetRunning(c) \/ StartCreateThread(c) \/ StartSetDaemon(c)
       \/ StartThread(c)
       \/ StopClearRunning(c) \/ StopCheckThread(c) \/ StopJoin(c)
       \/ StopReturn(c)
  \/ InstallArtifacts

FairSpec == Init /\ [][NextLifecycle]_vars /\ Fairness

\* the service with all its routes
NextSvc ==
  \/ Next
  \/ \E c \in Clients :
       \/ CallHealth(c) \/ HealthDetector(c) \/ HealthRunning(c)
       \/ CallQuery(c) \/ QueryReturn(c)
       \/ CallStream(c) \/ StreamRead(c) \/ StreamYield(c)
       \/ StreamSleep(c) \/ Disconnect(c)

SpecSvc == Init /\ [][NextSvc]_vars

\* the worker and the readers, with callers that change the lists they
\* were given
NextCopy ==
  \/ \E t \in Loops :
       \/ LoopCheck(t) \/ LoopFramePair(t) \/ LoopFrameMiss(t)
       \/ LoopDetect(t) \/ LoopEnrich(t) \/ LoopAcquire(t) \/ LoopSwap(t)
       \/ LoopSleep(t) \/ LoopRaise(t) \/ LoopExcept(t)
  \/ \E c \in Clients :
       \/ CallStart(c) \/ CallDetections(c) \/ CallSummary(c)
       \/ StartCheckRunning(c) \/ StartCheckDetector(c) \/ StartInitialize(c)
       \/ StartSetRunning(c) \/ StartCreateThread(c) \/ StartSetDaemon(c)
       \/ StartThread(c)
       \/ ReadAcquire(c) \/ ReadCopy(c) \/ ReadReturn(c)
       \/ CallerMutate(c)
  \/ InstallArtifacts

SpecCopy == Init /\ [][NextCopy]_vars

\* the worker and the two routes that build prompts for the language model
NextOllama ==
  \/ \E t \in Loops :
       \/ LoopCheck(t) \/ LoopFramePair(t) \/ LoopFrameMiss(t)
       \/ LoopDetect(t) \/ LoopEnrich(t) \/ LoopAcquire(t) \/ LoopSwap(t)
       \/ LoopSleep(t) \/ LoopRaise(t) \/ LoopExcept(t)
  \/ \E c \in Clients :
       \/ CallStart(c) \/ CallScene(c) \/ CallPrompt(c)
       \/ StartCheckRunning(c) \/ StartCheckDetector(c) \/ StartInitialize(c)
       \/ StartSetRunning(c) \/ StartCreateThread(c) \/ StartSetDaemon(c)
       \/ StartThread(c)
       \/ PromptCheck(c) \/ ReadAcquire(c) \/ ReadCopy(c)
       \/ OllamaDetections(c) \/ OllamaSummary(c)
  \/ InstallArtifacts

SpecOllama == Init /\ [][NextOllama]_vars

----------------------------------------------------------------------------
(* The handlers run on their own: one GET /summary or GET /query request   *)
(* answered from a snapshot, with no worker and no other request at the    *)
(* same time                                                               *)

FnMaxLen == 3     \* rows of the network output for one frame
FnMaxTime == 2    \* clock readings: 1 at the capture, up to this at a request

\* the rows of the network output for one frame, each with the depth at its
\* bounding-box centre and the capture time (lines 90-96)
FnDetections ==
  [class : {"person", "chair"}, confidence : {40, 50, 60, 90},
   depth : {15, 19}, timestamp : {1}]

RECURSIVE ListsUpTo(_)
ListsUpTo(n) ==
  IF n = 0 THEN {<<>>}
  ELSE LET shorter == ListsUpTo(n - 1)
       IN  shorter \cup {Append(l, d) : l \in {x \in shorter : Len(x) = n - 1},
                                        d \in FnDetections}

\* detect_objects with the test of line 71 taken as confidence > 0.3
detect_objects_LowThreshold(rows) ==
  SelectSeq(rows, LAMBDA d : d.confidence > 30)

\* object_detection_jetson.py line 68-80: the rows with confidence > 0.5
detect_objects(rows) == SelectSeq(rows, LAMBDA d : d.confidence > 50)

\* the snapshots one cycle can publish
FnSnapshots == {detect_objects(rows) : rows \in ListsUpTo(FnMaxLen)}

\* datetime.now() at a request
FnTimes == 1..FnMaxTime

FnInit ==
  /\ detector = FALSE
  /\ is_running = FALSE
  /\ current_detections \in FnSnapshots
  /\ snapshot_of = 1
  /\ detection_thread = NoThread
  /\ lock = NoHolder
  /\ artifacts = TRUE
  /\ th = [t \in Loops |-> UnbornThread]
  /\ cl = [c \in Clients |-> IdleClient]
  /\ nextCycle = 0
  /\ calls = 0
  /\ req = NoRequest
  /\ resp = NoResponse
  /\ starts = 0
  /\ started_since = FALSE
  /\ failed_since = FALSE
  /\ reported = [k \in 1..MaxCycles |-> -1]
  /\ errored = FALSE
  /\ stopped_since = FALSE

\* line 181-185 with 108-145: GET /summary; the timestamp of line 121 and
\* 144 is the clock reading at the request
get_summary ==
  /\ req = NoRequest
  /\ req' = [op |-> "summary"]
  /\ \E now \in FnTimes :
       resp' = [status |-> "ok", summary |-> Summary(current_detections),
                timestamp |-> now]
  /\ UNCHANGED <<detector, is_running, current_detections, snapshot_of,
                 detection_thread, lock, artifacts, th, cl, nextCycle, calls,
                 hist>>

\* line 187-214 with 108-111: GET /query
query_objects ==
  /\ req = NoRequest
  /\ \E class \in ClassArgs, mc \in ConfidenceArgs, md \in DepthArgs :
    LET obj_class == class
        min_confidence == ArgsGetFloat(mc, Num(50))
        max_depth == ArgsGetFloat(md, None)
        filtered == Filtered(current_detections, obj_class, min_confidence,
                             max_depth)
    IN  /\ req' = [op |-> "query", class |-> class, min_confidence |-> mc,
                   max_depth |-> md]
        /\ resp' = [status |-> "ok",
                    query |-> [class |-> obj_class,
                               min_confidence |-> min_confidence,
                               max_depth |-> max_depth],
                    results |-> filtered, count |-> Len(filtered)]
        /\ UNCHANGED <<detector, is_running, current_detections, snapshot_of,
                       detection_thread, lock, artifacts, th, cl, nextCycle,
                       calls, hist>>

FnNext == get_summary \/ query_objects

SpecFn == FnInit /\ [][FnNext]_vars

----------------------------------------------------------------------------
(* Properties *)

\* a thread that is running _detection_loop
Alive(t) == th[t].pc \notin {"unborn", "created", "dead"}

AliveLoops == {t \in Loops : Alive(t)}

\* a list some completed pass of lines 83-96 built, or the initial list
WholeList(l) ==
  \/ l = <<>>
  \/ \E k \in 1..MaxCycles : reported[k] >= 0 /\ l = CycleList(k, reported[k])

\* C1: when start_detection has been called twice on the instance, the
\* first call having returned started, with no stop_detection call and no
\* raising cycle since the first call, the second call returns
\* already_running at line 40, creates no thread, and exactly one detection
\* loop exists afterwards.
C1_SecondStart ==
  [][\A c \in Clients :
       (cl[c].pc = "s40" /\ cl'[c].pc # "s40" /\ started_since /\ starts = 2)
         => /\ cl'[c].status = "already_running"
            /\ th' = th
            /\ Cardinality({t \in Loops : th'[t].pc \notin
                              {"unborn", "created", "dead"}}) = 1]_vars

C1_Witness ==
  /\ starts = 2
  /\ started_since
  /\ Cardinality(AliveLoops) = 1
  /\ \E c \in Clients :
       cl[c].op = "start" /\ cl[c].pc = "idle"
         /\ cl[c].status = "already_running"

\* C2: under every interleaving of start_detection and stop_detection calls
\* at most one detection loop is alive at any instant.
C2_AtMostOneLoop == Cardinality(AliveLoops) <= 1

\* C3: a get_current_detections call that returns hands out the snapshot as
\* it stood when the call took the lock, which is a whole list of one cycle
\* (the previous one or the one replacing it), never a mix or a prefix.
C3_AtomicRead ==
  [][\A c \in Clients :
       (cl[c].pc = "r111" /\ cl'[c].pc = "idle")
         => /\ cl'[c].copy = cl[c].seen
            /\ cl'[c].copy = current_detections
            /\ WholeList(cl'[c].copy)]_vars

C3_Witness ==
  \E c \in Clients, t \in Loops :
    /\ cl[c].pc = "r111"
    /\ Len(cl[c].copy) >= 1
    /\ Len(cl[c].copy) < Len(current_detections)
    /\ th[t].pc = "enrich"
    /\ Len(th[t].detections) = th[t].n
    /\ th[t].detections # current_detections

\* C4: every step of a stop_detection call that arrived at a stopped worker
\* and still finds it stopped raises nothing, leaves is_running false and the
\* snapshot, the detector, the thread handle and the threads as they are,
\* and the call answers stopped: a further call changes nothing.
C4_StopIdempotent ==
  [][\A c \in Clients :
       (cl[c].op = "stop" /\ cl[c].pc # "idle" /\ cl'[c] # cl[c]
          /\ cl[c].quiet /\ Quiet)
         => /\ cl'[c].status # "raised"
            /\ cl'[c].pc = "idle" => cl'[c].status = "stopped"
            /\ is_running' = FALSE
            /\ current_detections' = current_detections
            /\ detector' = detector
            /\ detection_thread' = detection_thread
            /\ th' = th]_vars

C4_Witness ==
  \E c \in Clients :
    /\ cl[c].op = "stop" /\ cl[c].pc = "idle" /\ cl[c].status = "stopped"
    /\ cl[c].quiet
    /\ detection_thread # NoThread
    /\ current_detections # <<>>

\* C5: the step of start_detection in which the detector's construction
\* fails answers error and leaves the worker stopped: is_running false, no
\* thread created, the detector unset, the snapshot unchanged.
C5_InitError ==
  [][\A c \in Clients :
       (cl[c].pc = "s32" /\ cl'[c].pc # "s32" /\ ~artifacts)
         => /\ cl'[c].status = "error" /\ cl'[c].pc = "idle"
            /\ is_running' = FALSE /\ is_running = FALSE
            /\ th' = th /\ AliveLoops = {}
            /\ detection_thread' = detection_thread
            /\ detector' = FALSE
            /\ current_detections' = current_detections]_vars

C5_Witness ==
  \E c \in Clients :
    cl[c].op = "start" /\ cl[c].pc = "idle" /\ cl[c].status = "error"

\* C6: when a cycle raises, the loop clears the run flag and ends, the
\* snapshot stays what the last completed cycle made it (always a whole
\* list), reads still answer with it, and no loop begins another cycle until
\* a start_detection call has run line 47.
C6_WorkerFailure ==
  /\ [](WholeList(current_detections))
  /\ [](failed_since => ~is_running)
  /\ [][\A t \in Loops :
          /\ (th[t].pc # "except" /\ th'[t].pc = "except")
               => current_detections' = current_detections
          /\ (th[t].pc = "except" /\ th'[t].pc # "except")
               => /\ th'[t].pc = "dead"
                  /\ ~is_running'
                  /\ current_detections' = current_detections
          /\ (failed_since /\ th[t].pc = "check" /\ th'[t].pc # "check")
               => th'[t].pc = "dead"]_vars
  /\ [][\A c \in Clients :
          (failed_since /\ cl[c].pc = "r111" /\ cl'[c].pc = "idle")
            => cl'[c].status = "ok" /\ cl'[c].copy = current_detections]_vars

C6_Witness ==
  /\ failed_since
  /\ current_detections # <<>>
  /\ \E t \in Loops :
       th[t].pc = "dead" /\ Len(th[t].detections) >= 1
         /\ Len(th[t].detections) < th[t].n
  /\ \E c \in Clients :
       cl[c].op = "detections" /\ cl[c].pc = "idle" /\ cl[c].status = "ok"
         /\ cl[c].copy = current_detections

\* C9: a summary computed while the snapshot is empty has total_objects 0
\* and an empty class list, and is a normal answer.
C9_EmptySummary ==
  \A c \in Clients :
    (cl[c].op = "summary" /\ cl[c].pc = "idle" /\ cl[c].copy = <<>>)
      => /\ cl[c].status = "ok"
         /\ cl[c].summary = [total_objects |-> 0, objects |-> <<>>]

C9_Witness ==
  \E c \in Clients :
    /\ cl[c].op = "summary" /\ cl[c].pc = "idle" /\ cl[c].copy = <<>>
    /\ cl[c].status = "ok"
    /\ reported[1] = 0

\* C7: the summary of a snapshot S has total_objects = Len(S), one group per
\* class occurring in S and no other, and counts that add up to Len(S).
C7_SummaryTotals ==
  req.op = "summary" =>
    LET S == current_detections
        groups == resp.summary.objects
        sumCounts[i \in 0..Len(groups)] ==
          IF i = 0 THEN 0 ELSE sumCounts[i - 1] + groups[i].count
    IN  /\ resp.summary.total_objects = Len(S)
        /\ {groups[i].class : i \in 1..Len(groups)}
             = {S[i].class : i \in 1..Len(S)}
        /\ \A i, j \in 1..Len(groups) :
             groups[i].class = groups[j].class => i = j
        /\ sumCounts[Len(groups)] = Len(S)

C7_Witness ==
  /\ req.op = "summary"
  /\ Len(current_detections) = 3
  /\ Len(resp.summary.objects) = 2

\* C8: in the summary of a non-empty snapshot S the group of class c has
\* count = the number of detections of class c, and average_depth = the sum
\* of their depths divided by that number.
C8_GroupMean ==
  (req.op = "summary" /\ current_detections # <<>>) =>
    LET S == current_detections
        groups == resp.summary.objects
        members(c) == {i \in 1..Len(S) : S[i].class = c}
        depthSum[i \in 0..Len(S), c \in {S[j].class : j \in 1..Len(S)}] ==
          IF i = 0 THEN 0
          ELSE depthSum[i - 1, c] + (IF S[i].class = c THEN S[i].depth ELSE 0)
    IN  /\ \A i \in 1..Len(S) :
             \E g \in 1..Len(groups) : groups[g].class = S[i].class
        /\ \A g \in 1..Len(groups) :
             /\ groups[g].count = Cardinality(members(groups[g].class))
             /\ groups[g].count > 0
             /\ groups[g].average_depth.den > 0
             /\ groups[g].average_depth.num * groups[g].count
                  = groups[g].average_depth.den
                      * depthSum[Len(S), groups[g].class]

\* person 0.9 at 2.0 m is outside the depths drawn; the case reached is
\* person at 1.5 m, chair at 1.5 m and chair at 1.9 m: chair count 2, mean 1.7
C8_Witness ==
  /\ req.op = "summary"
  /\ Len(current_detections) = 3
  /\ current_detections[1].class = "person"
  /\ current_detections[2].class = "chair" /\ current_detections[2].depth = 15
  /\ current_detections[3].class = "chair" /\ current_detections[3].depth = 19
  /\ resp.summary.objects[1] = [class |-> "person", count |-> 1,
                                average_depth |-> [num |-> 15, den |-> 1]]
  /\ resp.summary.objects[2] = [class |-> "chair", count |-> 2,
                                average_depth |-> [num |-> 17, den |-> 1]]

\* C10: the result of a query is exactly the detections d of the snapshot
\* with (class not given or d.class = class) and d.confidence >=
\* min_confidence and (max_depth not given or d.depth <= max_depth), in
\* snapshot order.
C10_QueryFilter ==
  req.op = "query" =>
    LET q == resp.query
        GE(x, f) == f.kind = "num" /\ x >= f.v
        LE(x, f) == f.kind = "num" /\ x <= f.v
        pass(d) == /\ ~q.class.given \/ d.class = q.class.text
                   /\ GE(d.confidence, q.min_confidence)
                   /\ q.max_depth.kind = "none" \/ LE(d.depth, q.max_depth)
    IN  /\ resp.status = "ok"
        /\ resp.results = SelectSeq(current_detections, pass)

\* C12: a loop that reads the run flag cleared at line 64 ends there and
\* begins no frame acquisition; and once the flag is clear, every loop alive
\* ends, at the latest after the cycle it is in, unless the flag is set
\* again by a start_detection call.
C12_Cancellation ==
  /\ [][\A t \in Loops :
          (th[t].pc = "check" /\ ~is_running /\ th'[t] # th[t])
            => th'[t].pc = "dead"]_vars
  /\ [][\A t \in Loops :
          (th[t].pc # "wait" /\ th'[t].pc = "wait")
            => th[t].pc = "check" /\ is_running]_vars
  /\ \A t \in Loops :
       (Alive(t) /\ ~is_running) ~> (~Alive(t) \/ is_running)

C12_Witness ==
  /\ ~is_running
  /\ nextCycle = 1
  /\ snapshot_of = 1
  /\ \E t \in Loops : th[t].pc = "dead"
  /\ \A t \in Loops : ~Alive(t)
  /\ \E c \in Clients :
       cl[c].op = "stop" /\ cl[c].pc = "idle" /\ cl[c].status = "stopped"

\* C13: a cycle whose colour or depth frame is missing runs no detection,
\* raises nothing, leaves the snapshot and the run flag as they are, and the
\* loop goes back to line 64, from where it begins the next cycle when the
\* flag is still set.
C13_SamplingMiss ==
  [][\A t \in Loops :
       /\ (~th[t].skipped /\ th'[t].skipped)
            => /\ th'[t].pc = "check"
               /\ current_detections' = current_detections
               /\ is_running' = is_running
               /\ reported' = reported
               /\ nextCycle' = nextCycle
       /\ (th[t].skipped /\ ~th'[t].skipped /\ is_running /\ detector)
            => th'[t].pc = "wait"]_vars

C13_Witness ==
  \E t \in Loops :
    /\ th[t].pc = "check" /\ th[t].skipped
    /\ is_running
    /\ current_detections # <<>>

\* C14: the snapshot is always the empty list of line 23 or the complete
\* list of one cycle: one detection per object the detector reported for
\* that cycle's frame, in that order, all of that cycle; the list a loop
\* swaps in is the complete list of its cycle.
C14_OneCycleSnapshot ==
  /\ WholeList(current_detections)
  /\ \A i \in 1..Len(current_detections) :
       current_detections[i].timestamp = snapshot_of
  /\ snapshot_of # 0 =>
       current_detections = CycleList(snapshot_of, reported[snapshot_of])
  /\ \A t \in Loops :
       th[t].pc = "swap"
         => th[t].detections = CycleList(th[t].cyc, reported[th[t].cyc])

C14_Witness ==
  /\ snapshot_of = 2
  /\ Len(current_detections) = 2
  /\ reported[1] >= 1

\* C15: the lock is held by a loop only between line 98 and line 99 and by
\* a handler only during the copy of line 111: never by a thread that waits
\* for frames, detects, looks up depths or sleeps, nor by a stream between
\* two emissions.
C15_LockScope ==
  /\ lock = NoHolder
       \/ (\E t \in Loops : lock = LoopHolder(t))
       \/ (\E c \in Clients : lock = ClientHolder(c))
  /\ \A t \in Loops : lock = LoopHolder(t) <=> th[t].pc = "swap"
  /\ \A c \in Clients : lock = ClientHolder(c) <=> cl[c].pc = "r111"

C15_Witness ==
  \E c, b \in Clients, t \in Loops :
    /\ cl[c].op = "stream" /\ cl[c].pc = "z228"
    /\ cl[b].pc = "r111" /\ Len(cl[b].copy) = 1 /\ lock = ClientHolder(b)
    /\ th[t].pc = "wait"

\* C16: no get_current_detections call is begun for a stream whose
\* subscriber has disconnected.
C16_StreamEndsAtDisconnect ==
  [][\A c \in Clients :
       (cl[c].op = "stream" /\ cl[c].gone)
         => ~(cl[c].pc = "r110" /\ cl'[c].pc = "r111")]_vars

C20_OnlyWriter ==
  [][(current_detections' # current_detections \/ snapshot_of' # snapshot_of)
       => /\ cl' = cl
          /\ \E t \in Loops :
               /\ th[t].pc = "swap" /\ th'[t].pc = "sleep"
               /\ current_detections' = th[t].detections]_vars

C20_Witness ==
  /\ calls = 3 /\ starts = 2
  /\ detection_thread = 2
  /\ current_detections # <<>>
  /\ \E c \in Clients :
       cl[c].op = "stop" /\ cl[c].pc = "idle" /\ cl[c].status = "stopped"
  /\ \E c \in Clients :
       cl[c].op = "start" /\ cl[c].pc = "idle" /\ cl[c].status = "started"

\* C11: every snapshot a cycle publishes holds detections with confidence
\* above 0.5 only, and a query with no class, no max_depth and
\* min_confidence absent or 0.5 answers with such a snapshot unchanged.
C11_NoFilterQuery ==
  /\ \A i \in 1..Len(current_detections) :
       current_detections[i].confidence > 50
  /\ (/\ req.op = "query"
      /\ ~req.class.given
      /\ req.min_confidence \in {NotGiven, GivenNumber(50)}
      /\ ~req.max_depth.given
      /\ \A i \in 1..Len(current_detections) :
           current_detections[i].confidence >= 50)
       => /\ resp.status = "ok"
          /\ resp.results = current_detections
          /\ resp.count = Len(current_detections)

C11_Witness ==
  /\ req.op = "query"
  /\ ~req.class.given /\ ~req.min_confidence.given /\ ~req.max_depth.given
  /\ Len(current_detections) = 3
  /\ current_detections[2].confidence = 60
  /\ resp.count = 3

\* C17: the timestamp of a summary is the timestamp of the snapshot it was
\* computed from.
C17_SummaryTimestamp ==
  (req.op = "summary" /\ current_detections # <<>>)
    => resp.timestamp = current_detections[1].timestamp

\* C18: a query with a min_confidence or max_depth that is not a number is
\* answered with an error, not with a filtered list.
C18_MalformedRejected ==
  (/\ req.op = "query"
   /\ req.min_confidence.kind = "junk" \/ req.max_depth.kind = "junk")
    => resp.status = "error"

\* C21: a loop that begins a frame acquisition after an earlier one has
\* taken the delay of line 102 in between, also when the earlier cycle was
\* skipped for a missing frame.
C21_DelayEveryCycle ==
  [][\A t \in Loops :
       (th[t].pc = "check" /\ th'[t].pc = "wait") => ~th[t].skipped]_vars

\* C22: a start_detection call that finds no detector attempts the
\* construction, also after an earlier call has returned error, and goes on
\* to line 47 when the construction succeeds; the second call on the
\* instance, made alone after the first returned error, then returns started
\* with exactly one loop; a detector once constructed stays, and a call that
\* finds it goes to line 47 without constructing another.
C22_RetryAfterError ==
  /\ [][\A c \in Clients :
          /\ (cl[c].pc = "s43" /\ cl'[c].pc # "s43")
               => cl'[c].pc = IF detector THEN "s47" ELSE "s32"
          /\ (cl[c].pc = "s32" /\ cl'[c].pc # "s32" /\ artifacts)
               => detector' /\ cl'[c].pc = "s47"
          /\ (/\ errored /\ starts = 2 /\ cl[c].quiet
              /\ cl[c].pc = "s50" /\ cl'[c].pc = "idle")
               => /\ cl'[c].status = "started"
                  /\ detector
                  /\ Cardinality({t \in Loops : th'[t].pc \notin
                                    {"unborn", "created", "dead"}}) = 1]_vars
  /\ [][detector => detector']_vars

C22_Witness ==
  /\ errored
  /\ starts = 2
  /\ detector
  /\ Cardinality(AliveLoops) = 1
  /\ \E c \in Clients :
       /\ cl[c].op = "start" /\ cl[c].pc = "idle"
       /\ cl[c].status = "started" /\ cl[c].quiet

\* C23: once a stop_detection call has returned stopped, with the one
\* start_detection call of the instance behind it, no detection loop is
\* alive.
C23_StoppedMeansNoLoop ==
  (stopped_since /\ starts = 1) => AliveLoops = {}

\* C24: a stream never emits the snapshot of a cycle whose frames were
\* acquired before those of the cycle it emitted earlier.
C24_CycleOrder ==
  [][\A c \in Clients :
       (cl[c].op = "stream" /\ cl[c].pc = "r111" /\ cl'[c].pc = "y227")
         => snapshot_of >= cl[c].cycle]_vars

\* C25: the summary and the detection list that ollama_prompt and
\* ollama_scene_analysis answer with describe the same snapshot: the total
\* of the summary is the length of the list, and the count of every group
\* is the number of detections of its class in the list.
C25_SameSnapshot ==
  \A c \in Clients :
    (cl[c].op \in {"prompt", "scene"} /\ cl[c].status = "ok")
      => /\ cl[c].summary.total_objects = Len(cl[c].detections)
         /\ \A i \in 1..Len(cl[c].summary.objects) :
              cl[c].summary.objects[i].count =
                Cardinality({k \in 1..Len(cl[c].detections) :
                               cl[c].detections[k].class =
                                 cl[c].summary.objects[i].class})

====
